---- MODULE Spec2Model ----
(***************************************************************************)
(* A model of colonize (src/src/main.rs): the chunk codec                  *)
(* (Chunk::from_chunk_primer / Chunk::read_row), the input recording and   *)
(* playback subsystem, and the frame loop of main that drives them.        *)
(*                                                                         *)
(* Three specifications share the module:                                  *)
(*   SpecCodec   a voxel field is primed, encoded and read back row by row *)
(*   SpecReplay  the replay operations called directly, in any order       *)
(*   Spec        the frame loop of main under device events                *)
(*   SpecBuilds  Spec for builds that differ in CONTROLLER_COUNT           *)
(*   SpecIO      Spec with File::create and File::open allowed to fail     *)
(***************************************************************************)
EXTENDS Integers, Sequences, FiniteSets, TLC

(***************************************************************************)
(* Bounds of the model.                                                    *)
(***************************************************************************)
\* Voxels per row and rows per axis; 32 in the source (main.rs:53).  The
\* model keeps the cube shape (R*R rows, R*R*R voxels) at a smaller R.
VOXEL_ROW_SIZE == 2
\* Voxels the generator writes over the initial fill of the field.
MaxEdits == 2
\* Records one take may hold.
MaxRecords == 2
\* playback_input calls after one begin_input_playback.
MaxReads == 3
\* Largest camera offset, in either direction.
MaxOffset == 1
\* Device events (other than ignored ones) main handles in one run.
MaxEvents == 5
\* Largest CONTROLLER_COUNT among the builds of SpecBuilds.
MaxControllers == 2
\* Frames looked ahead from a playing session, and key-downs of L in each.
MaxFramesAhead == 3
MaxTogglesPerFrame == 2

(***************************************************************************)
(* Program constants.                                                      *)
(***************************************************************************)
M_AIR == 0
M_STONE == 1
M_COUNT == 2
ROW_TAG_ALLOCATED == 32768
ROW_TAG_MASK == 32767
U16 == 65536
CAMERA_MOVE_SPEED == 1
BINCODED_GAME_INPUT_SIZE == 44
CONTROLLER_COUNT == 1
RECORDING_SLOT == 1

VOXEL_ROW_COUNT == VOXEL_ROW_SIZE * VOXEL_ROW_SIZE
VOXEL_BOX_SIZE == VOXEL_ROW_SIZE * VOXEL_ROW_SIZE * VOXEL_ROW_SIZE

\* Voxel.material is a u8; the model draws it from the two materials that
\* have a template and one code that has none.
Materials == 0 .. M_COUNT
Coord == 0 .. (VOXEL_ROW_SIZE - 1)

VARIABLES
    primer,      \* ChunkPrimer.data, a sequence of VOXEL_BOX_SIZE material codes
    edits,       \* number of voxels written over the initial fill
    codec_pc,    \* "prime", "encoded", "panic"
    chunk,       \* the Chunk: [rows, row_data]
    foreign,     \* TRUE once the chunk is no longer the encoder's output
    row_yz,      \* the (y, z) of the last read_row call, or <<>>
    row_out,     \* the result of the last read_row call
    state,       \* the State record of main
    disk,        \* recording.ci and state.sav
    new_input,   \* the Game Input handed to record/playback/update
    call,        \* SpecReplay: the last operation called and its outcome
    h_phase,     \* SpecReplay: how far the calls follow begin recording,
                 \* record x N, end recording, begin playback, playback x k:
                 \* "rec", "ended", "play", or "free" when they do not
    h_take,      \* SpecReplay: the inputs recorded in that run
    h_reads,     \* SpecReplay: the playback_input calls of that run
    h_snap,      \* SpecReplay: the Game State at its begin_recording_input
    old_input,   \* Spec: old_input of main
    running,     \* Spec: GLOBAL_RUNNING
    pc,          \* Spec: where main stands: "start", "top", "events",
                 \* "record", "playback", "update", "exited"
    panic,       \* Spec: "none", or the panic that ended the process: "size"
                 \* and "assert" for the two assertions, "io" for an IoError
                 \* unwrapped by main, "record" and "playback" for a panic
                 \* inside record_input and playback_input
    phys,        \* Spec: the movement keys the user holds down
    nevents,     \* Spec: device events handled so far
    g_applied,   \* Spec: the Game States the recorded inputs were applied to
    g_replayed,  \* Spec: the record playback_input read in this frame, or 0
    g_clean,     \* Spec: no device event was handled since playback began
    g_handed     \* Spec: the Game Input the previous frame handed to
                 \* update_and_render, or None in the first frame

codec_vars == <<primer, edits, codec_pc, chunk, foreign, row_yz, row_out>>
replay_vars == <<state, disk, new_input>>
harness_vars == <<call, h_phase, h_take, h_reads, h_snap>>
driver_vars == <<old_input, running, pc, panic, phys, nevents,
                 g_applied, g_replayed, g_clean, g_handed>>
vars == <<codec_vars, replay_vars, harness_vars, driver_vars>>

(***************************************************************************)
(* The chunk codec.                                                        *)
(***************************************************************************)
\* lazy_static VOXEL_ROWS: one row of VOXEL_ROW_SIZE voxels per material.
VOXEL_ROWS == [m \in 0 .. (M_COUNT - 1) |-> [i \in 1 .. VOXEL_ROW_SIZE |-> m]]

\* ChunkPrimer::get_index: z << 10 | y << 5 | x, the shifts being
\* 2*log2(32) and log2(32); for coordinates below the row size this is
\* z*R*R + y*R + x.
get_index(x, y, z) == z * VOXEL_ROW_SIZE * VOXEL_ROW_SIZE + y * VOXEL_ROW_SIZE + x

\* ChunkPrimer::get_row: &self.data[idx..idx + VOXEL_ROW_SIZE] (0-based,
\* end exclusive; sequences here are 1-based).
get_row(data, y, z) ==
    SubSeq(data, get_index(0, y, z) + 1, get_index(0, y, z) + VOXEL_ROW_SIZE)

\* v | ROW_TAG_ALLOCATED on a u16.
OrAllocated(v) ==
    IF (v \div ROW_TAG_ALLOCATED) % 2 = 1 THEN v ELSE v + ROW_TAG_ALLOCATED

EmptyChunk == [rows |-> [i \in 1 .. VOXEL_ROW_COUNT |-> 0], row_data |-> <<>>]

\* A variant of the loop body that appends the row to row_data also when
\* the row is packed.
encode_row_append_always(acc, data, y, z) ==
    LET row == get_row(data, y, z)
        material == row[1]
    IN  IF ~acc.ok THEN acc
        ELSE IF material >= M_COUNT THEN [acc EXCEPT !.ok = FALSE]
        ELSE LET packed == row = VOXEL_ROWS[material]
                 offset == IF packed THEN material
                           ELSE OrAllocated(Len(acc.row_data) % U16)
             IN  [ok |-> TRUE,
                  rows |-> [acc.rows EXCEPT ![z * VOXEL_ROW_SIZE + y + 1] = offset],
                  row_data |-> acc.row_data \o row]

\* A variant of the loop body that takes the offset of an allocated row
\* after the row was appended.
encode_row_offset_after(acc, data, y, z) ==
    LET row == get_row(data, y, z)
        material == row[1]
    IN  IF ~acc.ok THEN acc
        ELSE IF material >= M_COUNT THEN [acc EXCEPT !.ok = FALSE]
        ELSE LET packed == row = VOXEL_ROWS[material]
                 offset == IF packed THEN material
                           ELSE OrAllocated(Len(acc.row_data \o row) % U16)
             IN  [ok |-> TRUE,
                  rows |-> [acc.rows EXCEPT ![z * VOXEL_ROW_SIZE + y + 1] = offset],
                  row_data |-> IF packed THEN acc.row_data ELSE acc.row_data \o row]

\* One iteration of the loops of Chunk::from_chunk_primer (main.rs:366-381).
\* VOXEL_ROWS[material as usize] panics (index out of bounds) when the first
\* voxel of the row carries a code >= M_COUNT.
encode_row(acc, data, y, z) ==
    LET row == get_row(data, y, z)
        material == row[1]
    IN  IF ~acc.ok THEN acc
        ELSE IF material >= M_COUNT THEN [acc EXCEPT !.ok = FALSE]
        ELSE LET packed == row = VOXEL_ROWS[material]
                 offset == IF packed THEN material
                           ELSE OrAllocated(Len(acc.row_data) % U16)
             IN  [ok |-> TRUE,
                  rows |-> [acc.rows EXCEPT ![z * VOXEL_ROW_SIZE + y + 1] = offset],
                  row_data |-> IF packed THEN acc.row_data ELSE acc.row_data \o row]

\* The loops of Chunk::from_chunk_primer: for z in 0..R { for y in 0..R },
\* i = z*R + y counting the iterations done so far.
RECURSIVE encode_from(_, _, _)
encode_from(acc, data, i) ==
    IF i = VOXEL_ROW_COUNT THEN acc
    ELSE encode_from(encode_row(acc, data, i % VOXEL_ROW_SIZE, i \div VOXEL_ROW_SIZE),
                     data, i + 1)

\* Chunk::from_chunk_primer: [ok, rows, row_data]; ok = FALSE is a panic.
from_chunk_primer(data) ==
    encode_from([ok |-> TRUE, rows |-> EmptyChunk.rows, row_data |-> <<>>], data, 0)

NoRow == [ok |-> FALSE, row |-> <<>>]

\* A variant of read_row that never fails: an allocated row whose slice
\* would leave row_data is cut at the end of row_data.
read_row_clamped(c, y, z) ==
    LET row == c.rows[z * VOXEL_ROW_SIZE + y + 1]
        allocated == (row \div ROW_TAG_ALLOCATED) % 2 = 1
        offset == row % (ROW_TAG_MASK + 1)
    IN  IF allocated
        THEN [ok |-> TRUE,
              row |-> SubSeq(c.row_data, offset + 1, offset + VOXEL_ROW_SIZE - 1)]
        ELSE IF offset < M_COUNT THEN [ok |-> TRUE, row |-> VOXEL_ROWS[offset]]
        ELSE NoRow

\* Chunk::read_row: [ok, row]; ok = FALSE is a panic (slice or index out of
\* range).  The allocated branch slices offset..offset + VOXEL_ROW_SIZE - 1,
\* end exclusive: VOXEL_ROW_SIZE - 1 voxels.
read_row(c, y, z) ==
    LET row == c.rows[z * VOXEL_ROW_SIZE + y + 1]
        allocated == (row \div ROW_TAG_ALLOCATED) % 2 = 1
        offset == row % (ROW_TAG_MASK + 1)
    IN  IF allocated
        THEN IF offset + VOXEL_ROW_SIZE - 1 > Len(c.row_data) THEN NoRow
             ELSE [ok |-> TRUE,
                   row |-> SubSeq(c.row_data, offset + 1, offset + VOXEL_ROW_SIZE - 1)]
        ELSE IF offset < M_COUNT THEN [ok |-> TRUE, row |-> VOXEL_ROWS[offset]]
        ELSE NoRow

(***************************************************************************)
(* bincode (little-endian, fixed-width integers, u64 length prefixes).     *)
(***************************************************************************)
None == <<>>
Some(v) == <<v>>

Slice(buf, off, len) == SubSeq(buf, off + 1, off + len)

\* A usize/u64 in 8 bytes.  Every count of the model is below 2^31, so the
\* upper four bytes are zero.
U64Bytes(n) == [i \in 1 .. 8 |-> IF i <= 4 THEN (n \div (256 ^ (i - 1))) % 256 ELSE 0]

U64Ok(b) == Len(b) = 8 /\ b[4] < 128 /\ \A i \in 5 .. 8 : b[i] = 0
U64Value(b) == b[1] + 256 * b[2] + 65536 * b[3] + 16777216 * b[4]

\* A u16 in 2 bytes.
U16Bytes(n) == <<n % 256, n \div 256>>

\* An i32 in 4 bytes, two's complement.
I32Bytes(n) == [i \in 1 .. 4 |-> (n \div (256 ^ (i - 1))) % 256]
I32Value(b) ==
    b[1] + 256 * b[2] + 65536 * b[3]
      + 16777216 * (IF b[4] >= 128 THEN b[4] - 256 ELSE b[4])

RECURSIVE ConcatAll(_)
ConcatAll(ss) == IF ss = <<>> THEN <<>> ELSE Head(ss) \o ConcatAll(Tail(ss))

\* A variant of the button encoding with a variable-length count: one byte
\* below 251, else a marker byte and the count in 2 or 4 bytes.
ser_button_varint(b) ==
    <<IF b.ended_down THEN 1 ELSE 0>>
      \o (IF b.half_transition_count < 251 THEN <<b.half_transition_count>>
          ELSE IF b.half_transition_count < U16
               THEN <<251>> \o U16Bytes(b.half_transition_count)
               ELSE <<252>> \o I32Bytes(b.half_transition_count))

\* #[derive(Serialize)] GameButtonState: bool (1 byte), usize (8 bytes).
ser_button(b) ==
    <<IF b.ended_down THEN 1 ELSE 0>> \o U64Bytes(b.half_transition_count)

\* #[derive(Serialize)] ControllerInput: the four buttons in field order.
ser_controller(c) ==
    ser_button(c.move_up) \o ser_button(c.move_down)
      \o ser_button(c.move_left) \o ser_button(c.move_right)

BUTTON_BYTES == 9
CONTROLLER_BYTES == 36

\* serialize(&GameInput): the Vec's u64 length, then each controller.
serialize_input(inp) ==
    U64Bytes(Len(inp.controllers))
      \o ConcatAll([i \in 1 .. Len(inp.controllers) |-> ser_controller(inp.controllers[i])])

de_button_ok(buf, off) ==
    /\ off + BUTTON_BYTES <= Len(buf)
    /\ buf[off + 1] \in {0, 1}
    /\ U64Ok(Slice(buf, off + 1, 8))

de_button(buf, off) ==
    [ended_down |-> buf[off + 1] = 1,
     half_transition_count |-> U64Value(Slice(buf, off + 1, 8))]

de_controller_ok(buf, off) ==
    \A j \in 0 .. 3 : de_button_ok(buf, off + BUTTON_BYTES * j)

de_controller(buf, off) ==
    [move_up |-> de_button(buf, off),
     move_down |-> de_button(buf, off + BUTTON_BYTES),
     move_left |-> de_button(buf, off + 2 * BUTTON_BYTES),
     move_right |-> de_button(buf, off + 3 * BUTTON_BYTES)]

\* deserialize::<GameInput>(&buf): [ok, v]; trailing bytes are not an error.
deserialize_input(buf) ==
    IF Len(buf) < 8 \/ ~U64Ok(Slice(buf, 0, 8)) THEN [ok |-> FALSE, v |-> <<>>]
    ELSE LET n == U64Value(Slice(buf, 0, 8))
         IN  IF \A i \in 1 .. n : de_controller_ok(buf, 8 + CONTROLLER_BYTES * (i - 1))
             THEN [ok |-> TRUE,
                   v |-> [controllers |->
                            [i \in 1 .. n |-> de_controller(buf, 8 + CONTROLLER_BYTES * (i - 1))]]]
             ELSE [ok |-> FALSE, v |-> <<>>]

\* #[derive(Serialize)] Chunk: rows through serialize_array (u64 length,
\* then each u16), row_data as a Vec<Voxel> (u64 length, one u8 per voxel).
serialize_chunk(c) ==
    U64Bytes(Len(c.rows))
      \o ConcatAll([i \in 1 .. Len(c.rows) |-> U16Bytes(c.rows[i])])
      \o U64Bytes(Len(c.row_data))
      \o c.row_data

\* serialize(&state.game): chunk, x_offset, y_offset.
serialize_game(g) ==
    serialize_chunk(g.chunk) \o I32Bytes(g.x_offset) \o I32Bytes(g.y_offset)

\* deserialize::<Game>(&buf): [ok, v].  a1024::deserialize rejects a rows
\* sequence whose length is not the array length.
deserialize_game(buf) ==
    LET bad == [ok |-> FALSE, v |-> <<>>]
    IN  IF Len(buf) < 8 \/ ~U64Ok(Slice(buf, 0, 8)) THEN bad
        ELSE LET n == U64Value(Slice(buf, 0, 8))
                 o1 == 8 + 2 * n
             IN  IF n # VOXEL_ROW_COUNT \/ Len(buf) < o1 + 8
                       \/ ~U64Ok(Slice(buf, o1, 8)) THEN bad
                 ELSE LET m == U64Value(Slice(buf, o1, 8))
                          o2 == o1 + 8 + m
                      IN  IF Len(buf) < o2 + 8 THEN bad
                          ELSE [ok |-> TRUE,
                                v |-> [chunk |->
                                         [rows |-> [i \in 1 .. n |->
                                                      buf[8 + 2 * i - 1] + 256 * buf[8 + 2 * i]],
                                          row_data |-> Slice(buf, o1 + 8, m)],
                                       x_offset |-> I32Value(Slice(buf, o2, 4)),
                                       y_offset |-> I32Value(Slice(buf, o2 + 4, 4))]]

(***************************************************************************)
(* Game input, game state, files.                                          *)
(***************************************************************************)
\* impl Default for GameButtonState / ControllerInput; GameInput::new.
ButtonDefault == [ended_down |-> FALSE, half_transition_count |-> 0]
ControllerDefault ==
    [move_up |-> ButtonDefault, move_down |-> ButtonDefault,
     move_left |-> ButtonDefault, move_right |-> ButtonDefault]
GameInputNew(n) == [controllers |-> [i \in 1 .. n |-> ControllerDefault]]

\* The two files of the working directory: None when the file does not
\* exist, Some(bytes) when it does.  deny holds the names that cannot be
\* created or opened (an I/O error other than "not found").
NoFiles == [rec |-> None, sav |-> None, deny |-> {}]

\* An open std::fs::File: its offset in the file.
Handle(pos) == [pos |-> pos]

\* Write::write_all at the handle's offset.
WriteAt(content, pos, bytes) ==
    LET end == pos + Len(bytes)
        n == IF Len(content) > end THEN Len(content) ELSE end
    IN  [i \in 1 .. n |->
           IF i > pos /\ i <= end THEN bytes[i - pos]
           ELSE IF i <= Len(content) THEN content[i] ELSE 0]

(***************************************************************************)
(* The replay subsystem.  Each operation takes the State and the files and *)
(* returns the new State, the new files and "Ok", "Err" (an IoError        *)
(* returned to the caller) or "Panic".                                     *)
(***************************************************************************)
\* A variant of begin_recording_input that opens recording.ci for appending
\* and keeps what it holds.
begin_recording_input_append(st, fs, idx) ==
    LET st1 == [st EXCEPT !.input_recording_index = Some(idx)]
    IN  IF "rec" \in fs.deny THEN [st |-> st1, fs |-> fs, res |-> "Err"]
        ELSE LET kept == IF fs.rec = None THEN <<>> ELSE fs.rec[1]
                 fs1 == [fs EXCEPT !.rec = Some(kept)]
                 st2 == [st1 EXCEPT !.recording_file = Some(Handle(Len(kept)))]
             IN  IF "sav" \in fs.deny THEN [st |-> st2, fs |-> fs1, res |-> "Err"]
                 ELSE [st |-> st2,
                       fs |-> [fs1 EXCEPT !.sav = Some(serialize_game(st.game))],
                       res |-> "Ok"]

\* begin_recording_input (main.rs:181-196).
begin_recording_input(st, fs, idx) ==
    LET st1 == [st EXCEPT !.input_recording_index = Some(idx)]
    IN  IF "rec" \in fs.deny THEN [st |-> st1, fs |-> fs, res |-> "Err"]
        ELSE LET fs1 == [fs EXCEPT !.rec = Some(<<>>)]
                 st2 == [st1 EXCEPT !.recording_file = Some(Handle(0))]
             IN  IF "sav" \in fs.deny THEN [st |-> st2, fs |-> fs1, res |-> "Err"]
                 ELSE [st |-> st2,
                       fs |-> [fs1 EXCEPT !.sav = Some(serialize_game(st.game))],
                       res |-> "Ok"]

\* A variant of end_recording_input that ends the whole session, playback
\* included.
end_recording_input_close_all(st) ==
    [st EXCEPT !.recording_file = None, !.input_recording_index = None,
               !.playback_file = None, !.input_playback_index = None]

\* A variant of end_recording_input that drops the file and keeps the slot.
end_recording_input_keep_index(st) ==
    [st EXCEPT !.recording_file = None]

\* end_recording_input (main.rs:198-202).
end_recording_input(st) ==
    [st EXCEPT !.recording_file = None, !.input_recording_index = None]

\* A variant of begin_input_playback that opens both files but keeps the
\* live Game State.
begin_input_playback_keep_game(st, fs, idx) ==
    LET st1 == [st EXCEPT !.input_playback_index = Some(idx)]
    IN  IF fs.rec = None \/ "rec" \in fs.deny THEN [st |-> st1, fs |-> fs, res |-> "Err"]
        ELSE LET st2 == [st1 EXCEPT !.playback_file = Some(Handle(0))]
             IN  IF fs.sav = None \/ "sav" \in fs.deny
                 THEN [st |-> st2, fs |-> fs, res |-> "Err"]
                 ELSE [st |-> st2, fs |-> fs, res |-> "Ok"]

\* begin_input_playback (main.rs:204-219).
begin_input_playback(st, fs, idx) ==
    LET st1 == [st EXCEPT !.input_playback_index = Some(idx)]
    IN  IF fs.rec = None \/ "rec" \in fs.deny THEN [st |-> st1, fs |-> fs, res |-> "Err"]
        ELSE LET st2 == [st1 EXCEPT !.playback_file = Some(Handle(0))]
             IN  IF fs.sav = None \/ "sav" \in fs.deny
                 THEN [st |-> st2, fs |-> fs, res |-> "Err"]
                 ELSE LET d == deserialize_game(fs.sav[1])
                      IN  IF ~d.ok THEN [st |-> st2, fs |-> fs, res |-> "Panic"]
                          ELSE [st |-> [st2 EXCEPT !.game = d.v], fs |-> fs, res |-> "Ok"]

\* end_input_playback (main.rs:221-225).
end_input_playback(st) ==
    [st EXCEPT !.playback_file = None, !.input_playback_index = None]

\* A variant of record_input that writes every record at the start of the
\* file instead of at the handle's offset.
record_input_at_start(st, fs, new_in) ==
    IF st.recording_file = None THEN [st |-> st, fs |-> fs, res |-> "Panic"]
    ELSE LET encoded == serialize_input(new_in)
         IN  [st |-> st,
              fs |-> [fs EXCEPT !.rec = Some(WriteAt(fs.rec[1], 0, encoded))],
              res |-> "Ok"]

\* record_input (main.rs:227-235).
record_input(st, fs, new_in) ==
    IF st.recording_file = None THEN [st |-> st, fs |-> fs, res |-> "Panic"]
    ELSE LET f == st.recording_file[1]
             encoded == serialize_input(new_in)
         IN  [st |-> [st EXCEPT !.recording_file = Some(Handle(f.pos + Len(encoded)))],
              fs |-> [fs EXCEPT !.rec = Some(WriteAt(fs.rec[1], f.pos, encoded))],
              res |-> "Ok"]

\* A variant of playback_input that hands back a default Game Input when
\* the stream is exhausted.
playback_input_default_on_eof(st, fs, new_in) ==
    IF st.playback_file = None
    THEN [st |-> st, fs |-> fs, input |-> new_in, res |-> "Panic", eof |-> FALSE]
    ELSE LET f == st.playback_file[1]
             content == fs.rec[1]
         IN  IF f.pos + BINCODED_GAME_INPUT_SIZE <= Len(content)
             THEN LET d == deserialize_input(Slice(content, f.pos, BINCODED_GAME_INPUT_SIZE))
                  IN  [st |-> [st EXCEPT !.playback_file =
                                            Some(Handle(f.pos + BINCODED_GAME_INPUT_SIZE))],
                       fs |-> fs, input |-> d.v, res |-> "Ok", eof |-> FALSE]
             ELSE LET r == begin_input_playback(end_input_playback(st), fs,
                                                st.input_playback_index[1])
                  IN  [st |-> r.st, fs |-> r.fs, input |-> GameInputNew(CONTROLLER_COUNT),
                       res |-> r.res, eof |-> TRUE]

\* A variant of playback_input that reads again after the restart and
\* hands back the first record, when there is one.
playback_input_retry(st, fs, new_in) ==
    IF st.playback_file = None
    THEN [st |-> st, fs |-> fs, input |-> new_in, res |-> "Panic", eof |-> FALSE]
    ELSE LET f == st.playback_file[1]
             content == fs.rec[1]
         IN  IF f.pos + BINCODED_GAME_INPUT_SIZE <= Len(content)
             THEN LET d == deserialize_input(Slice(content, f.pos, BINCODED_GAME_INPUT_SIZE))
                  IN  [st |-> [st EXCEPT !.playback_file =
                                            Some(Handle(f.pos + BINCODED_GAME_INPUT_SIZE))],
                       fs |-> fs, input |-> d.v, res |-> "Ok", eof |-> FALSE]
             ELSE LET r == begin_input_playback(end_input_playback(st), fs,
                                                st.input_playback_index[1])
                  IN  IF r.res = "Ok" /\ BINCODED_GAME_INPUT_SIZE <= Len(content)
                      THEN [st |-> [r.st EXCEPT !.playback_file =
                                                  Some(Handle(BINCODED_GAME_INPUT_SIZE))],
                            fs |-> r.fs,
                            input |-> deserialize_input(
                                          Slice(content, 0, BINCODED_GAME_INPUT_SIZE)).v,
                            res |-> "Ok", eof |-> TRUE]
                      ELSE [st |-> r.st, fs |-> r.fs, input |-> new_in,
                            res |-> r.res, eof |-> TRUE]

\* playback_input (main.rs:237-260): also the caller's Game Input after the
\* call and whether read_exact met the end of the stream.
playback_input(st, fs, new_in) ==
    IF st.playback_file = None
    THEN [st |-> st, fs |-> fs, input |-> new_in, res |-> "Panic", eof |-> FALSE]
    ELSE LET f == st.playback_file[1]
             content == fs.rec[1]
         IN  IF f.pos + BINCODED_GAME_INPUT_SIZE <= Len(content)
             THEN LET buf == Slice(content, f.pos, BINCODED_GAME_INPUT_SIZE)
                      st1 == [st EXCEPT !.playback_file =
                                           Some(Handle(f.pos + BINCODED_GAME_INPUT_SIZE))]
                      d == deserialize_input(buf)
                  IN  IF ~d.ok
                      THEN [st |-> st1, fs |-> fs, input |-> new_in,
                            res |-> "Panic", eof |-> FALSE]
                      ELSE [st |-> st1, fs |-> fs, input |-> d.v,
                            res |-> "Ok", eof |-> FALSE]
             ELSE IF st.input_playback_index = None
                  THEN [st |-> st, fs |-> fs, input |-> new_in,
                        res |-> "Panic", eof |-> TRUE]
                  ELSE LET r == begin_input_playback(end_input_playback(st), fs,
                                                     st.input_playback_index[1])
                       IN  [st |-> r.st, fs |-> r.fs, input |-> new_in,
                            res |-> r.res, eof |-> TRUE]

\* update_and_render (main.rs:687-701): the camera offsets; rendering reads
\* the game and changes nothing.
update_and_render(game, input) ==
    LET c == input.controllers[1]
        dy == IF c.move_up.ended_down THEN -CAMERA_MOVE_SPEED
              ELSE IF c.move_down.ended_down THEN CAMERA_MOVE_SPEED ELSE 0
        dx == IF c.move_left.ended_down THEN -CAMERA_MOVE_SPEED
              ELSE IF c.move_right.ended_down THEN CAMERA_MOVE_SPEED ELSE 0
    IN  [game EXCEPT !.x_offset = @ + dx, !.y_offset = @ + dy]

\* WorldGenerator::generate_chunk on a field of air with one stone voxel.
GeneratedChunk ==
    LET r == from_chunk_primer([i \in 1 .. VOXEL_BOX_SIZE |-> IF i = 2 THEN M_STONE ELSE M_AIR])
    IN  [rows |-> r.rows, row_data |-> r.row_data]

\* The State main builds (main.rs:525-537).
InitialState ==
    [game |-> [chunk |-> GeneratedChunk, x_offset |-> 0, y_offset |-> 0],
     recording_file |-> None, input_recording_index |-> None,
     playback_file |-> None, input_playback_index |-> None]

(***************************************************************************)
(* SpecCodec: prime a field, encode it, read rows back.                    *)
(***************************************************************************)
CodecStart ==
    /\ primer \in {[i \in 1 .. VOXEL_BOX_SIZE |-> b] : b \in {M_AIR, M_STONE}}
    /\ edits = 0
    /\ codec_pc = "prime"
    /\ chunk = EmptyChunk
    /\ foreign = FALSE
    /\ row_yz = <<>>
    /\ row_out = NoRow

\* The generator writes one voxel of the field (data[idx].material = m,
\* main.rs:298).
SetVoxel(x, y, z, m) ==
    /\ codec_pc = "prime"
    /\ edits < MaxEdits
    /\ primer[get_index(x, y, z) + 1] # m
    /\ primer' = [primer EXCEPT ![get_index(x, y, z) + 1] = m]
    /\ edits' = edits + 1
    /\ UNCHANGED <<codec_pc, chunk, foreign, row_yz, row_out>>
    /\ UNCHANGED <<replay_vars, harness_vars, driver_vars>>

\* WorldGenerator::generate_chunk: Chunk::from_chunk_primer(primer).
FromChunkPrimer ==
    /\ codec_pc = "prime"
    /\ LET r == from_chunk_primer(primer)
       IN  IF r.ok
           THEN /\ chunk' = [rows |-> r.rows, row_data |-> r.row_data]
                /\ codec_pc' = "encoded"
           ELSE /\ chunk' = chunk
                /\ codec_pc' = "panic"
    /\ UNCHANGED <<primer, edits, foreign, row_yz, row_out>>
    /\ UNCHANGED <<replay_vars, harness_vars, driver_vars>>

\* A Chunk that did not come from the encoder: the one deserialized from a
\* snapshot whose row_data lost its last k voxels.
LoadForeignChunk(k) ==
    /\ codec_pc = "encoded"
    /\ ~foreign
    /\ row_yz = <<>>
    /\ k <= Len(chunk.row_data)
    /\ chunk' = [chunk EXCEPT !.row_data = SubSeq(chunk.row_data, 1, Len(chunk.row_data) - k)]
    /\ foreign' = TRUE
    /\ UNCHANGED <<primer, edits, codec_pc, row_yz, row_out>>
    /\ UNCHANGED <<replay_vars, harness_vars, driver_vars>>

\* A variant of the read in which read_row takes the voxels of an allocated
\* row out of row_data instead of copying them.
ReadRow_draining(y, z) ==
    /\ codec_pc = "encoded"
    /\ row_yz' = <<y, z>>
    /\ row_out' = read_row(chunk, y, z)
    /\ LET e == chunk.rows[z * VOXEL_ROW_SIZE + y + 1]
           offset == e % (ROW_TAG_MASK + 1)
       IN  chunk' = IF (e \div ROW_TAG_ALLOCATED) % 2 = 1 /\ row_out'.ok
                    THEN [chunk EXCEPT !.row_data =
                             SubSeq(chunk.row_data, 1, offset)
                             \o SubSeq(chunk.row_data, offset + VOXEL_ROW_SIZE,
                                       Len(chunk.row_data))]
                    ELSE chunk
    /\ UNCHANGED <<primer, edits, codec_pc, foreign>>
    /\ UNCHANGED <<replay_vars, harness_vars, driver_vars>>

\* render_chunk: chunk.read_row(y, z).  read_row takes &self and returns a
\* slice borrowed from row_data or from VOXEL_ROWS: the chunk is not written.
ReadRow(y, z) ==
    /\ codec_pc = "encoded"
    /\ row_yz' = <<y, z>>
    /\ row_out' = read_row(chunk, y, z)
    /\ UNCHANGED <<primer, edits, codec_pc, chunk, foreign>>
    /\ UNCHANGED <<replay_vars, harness_vars, driver_vars>>

CodecNext ==
    \/ \E x \in Coord, y \in Coord, z \in Coord, m \in Materials : SetVoxel(x, y, z, m)
    \/ FromChunkPrimer
    \/ \E k \in 1 .. VOXEL_ROW_SIZE : LoadForeignChunk(k)
    \/ \E y \in Coord, z \in Coord : ReadRow(y, z)

\* The variables of a part that a specification does not use stay at fixed
\* values.
CodecIdle ==
    /\ primer = <<>> /\ edits = 0 /\ codec_pc = "idle" /\ chunk = EmptyChunk
    /\ foreign = FALSE /\ row_yz = <<>> /\ row_out = NoRow

ReplayIdle ==
    /\ state = InitialState /\ disk = NoFiles /\ new_input = GameInputNew(CONTROLLER_COUNT)

NoCall == [op |-> "none", res |-> "Ok", eof |-> FALSE, before |-> <<>>]

HarnessIdle ==
    /\ call = NoCall /\ h_phase = "free" /\ h_take = <<>> /\ h_reads = 0 /\ h_snap = None

DriverIdle ==
    /\ old_input = GameInputNew(CONTROLLER_COUNT) /\ running = TRUE /\ pc = "idle"
    /\ panic = "none" /\ phys = {} /\ nevents = 0
    /\ g_applied = <<>> /\ g_replayed = 0 /\ g_clean = FALSE /\ g_handed = None

CodecInit == CodecStart /\ ReplayIdle /\ HarnessIdle /\ DriverIdle

SpecCodec ==
    CodecInit /\ [][CodecNext]_vars

(***************************************************************************)
(* Claims about the chunk codec (SpecCodec).                               *)
(***************************************************************************)
RowEntry(c, y, z) == c.rows[z * VOXEL_ROW_SIZE + y + 1]
IsAllocated(e) == (e \div ROW_TAG_ALLOCATED) % 2 = 1
IsUniform(row) == \A i \in 1 .. Len(row) : row[i] = row[1]
Encoded == codec_pc = "encoded" /\ ~foreign

\* C1: every read_row(y, z) on the chunk encoded from a field returns the
\* VOXEL_ROW_SIZE voxels of the field's row (y, z), position by position.
C1_RoundTrip ==
    (Encoded /\ row_yz # <<>>) =>
        /\ row_out.ok
        /\ row_out.row = get_row(primer, row_yz[1], row_yz[2])

\* C6: from_chunk_primer completes on every field, and stores a row as
\* packed with its material code exactly when the row is uniform and the
\* material has a template; every other row is stored as allocated.
C6_CompressionCorrectness ==
    codec_pc # "prime" =>
        /\ codec_pc = "encoded"
        /\ \A y \in Coord, z \in Coord :
              LET row == get_row(primer, y, z)
                  e == RowEntry(chunk, y, z)
              IN  foreign \/
                    ((~IsAllocated(e) /\ e = row[1])
                       <=> (IsUniform(row) /\ row[1] < M_COUNT))

\* C8: a read_row of an allocated row whose VOXEL_ROW_SIZE voxels would
\* reach past the end of row_data panics and returns no row.
C8_DecodeFailure ==
    (codec_pc = "encoded" /\ row_yz # <<>>) =>
        LET e == RowEntry(chunk, row_yz[1], row_yz[2])
        IN  (IsAllocated(e)
               /\ (e % (ROW_TAG_MASK + 1)) + VOXEL_ROW_SIZE > Len(chunk.row_data))
              => ~row_out.ok

NonUniformRows(data) ==
    {yz \in Coord \X Coord : ~IsUniform(get_row(data, yz[1], yz[2]))}
AllocatedRows(c) ==
    {yz \in Coord \X Coord : IsAllocated(RowEntry(c, yz[1], yz[2]))}

\* C9: after from_chunk_primer, row_data holds VOXEL_ROW_SIZE voxels for
\* each non-uniform row of the field and for each row index entry tagged
\* allocated, and nothing else.
C9_StorageGrowthBound ==
    Encoded =>
        /\ Len(chunk.row_data) = VOXEL_ROW_SIZE * Cardinality(NonUniformRows(primer))
        /\ Len(chunk.row_data) = VOXEL_ROW_SIZE * Cardinality(AllocatedRows(chunk))

\* A field with two non-uniform rows and a packed row has been encoded.
C9_Witness ==
    /\ Encoded
    /\ Cardinality(NonUniformRows(primer)) = 2
    /\ Len(chunk.row_data) = 2 * VOXEL_ROW_SIZE
    /\ \E y \in Coord, z \in Coord : ~IsAllocated(RowEntry(chunk, y, z))

\* from_chunk_primer after its first n iterations.
RECURSIVE encode_prefix(_, _)
encode_prefix(data, n) ==
    IF n = 0 THEN [ok |-> TRUE, rows |-> EmptyChunk.rows, row_data |-> <<>>]
    ELSE encode_row(encode_prefix(data, n - 1), data,
                    (n - 1) % VOXEL_ROW_SIZE, (n - 1) \div VOXEL_ROW_SIZE)

MaskedOffset(e) == e % (ROW_TAG_MASK + 1)

\* The row size of the source (main.rs:53), for which the 16-bit row index
\* entry is laid out.
SOURCE_ROW_SIZE == 32

\* With SOURCE_ROW_SIZE voxels per row, the length of row_data before the
\* append of the k-th allocated row survives the cast to u16 and the tag,
\* for every k up to a chunk of non-uniform rows only.
OffsetsFitAtSourceSize ==
    \A k \in 0 .. (SOURCE_ROW_SIZE * SOURCE_ROW_SIZE - 1) :
        LET e == OrAllocated((k * SOURCE_ROW_SIZE) % U16)
        IN  IsAllocated(e) /\ MaskedOffset(e) = k * SOURCE_ROW_SIZE

\* C14: the k-th non-uniform row met in encode order (z outer, y inner, k
\* from 0) gets an entry tagged allocated whose masked offset is k * R, the
\* length of row_data before its append, untruncated also for R = 32 and
\* R * R non-uniform rows; the slices of two allocated rows do not overlap,
\* and row_data only grows from one iteration to the next.
C14_OffsetsNeverAlias ==
    /\ (codec_pc = "prime" /\ edits = 0) => OffsetsFitAtSourceSize
    /\ (Encoded /\ row_yz = <<>>) =>
          /\ chunk.rows = encode_prefix(primer, VOXEL_ROW_COUNT).rows
          /\ chunk.row_data = encode_prefix(primer, VOXEL_ROW_COUNT).row_data
          /\ \A i \in 0 .. (VOXEL_ROW_COUNT - 1) :
                LET before == encode_prefix(primer, i)
                    after == encode_prefix(primer, i + 1)
                    row == get_row(primer, i % VOXEL_ROW_SIZE, i \div VOXEL_ROW_SIZE)
                    k == Cardinality({j \in 0 .. (i - 1) :
                            ~IsUniform(get_row(primer, j % VOXEL_ROW_SIZE,
                                               j \div VOXEL_ROW_SIZE))})
                IN  /\ SubSeq(after.row_data, 1, Len(before.row_data)) = before.row_data
                    /\ ~IsUniform(row) =>
                          /\ IsAllocated(chunk.rows[i + 1])
                          /\ MaskedOffset(chunk.rows[i + 1]) = Len(before.row_data)
                          /\ MaskedOffset(chunk.rows[i + 1]) = k * VOXEL_ROW_SIZE
          /\ \A i \in 1 .. VOXEL_ROW_COUNT, j \in 1 .. VOXEL_ROW_COUNT :
                (i # j /\ IsAllocated(chunk.rows[i]) /\ IsAllocated(chunk.rows[j])) =>
                    \/ MaskedOffset(chunk.rows[i]) + VOXEL_ROW_SIZE <= MaskedOffset(chunk.rows[j])
                    \/ MaskedOffset(chunk.rows[j]) + VOXEL_ROW_SIZE <= MaskedOffset(chunk.rows[i])

\* A field with two non-uniform rows on either side of a packed row has
\* been encoded: the second one lies at offset VOXEL_ROW_SIZE.
C14_Witness ==
    /\ Encoded /\ row_yz = <<>>
    /\ IsAllocated(chunk.rows[1]) /\ MaskedOffset(chunk.rows[1]) = 0
    /\ ~IsAllocated(chunk.rows[2])
    /\ IsAllocated(chunk.rows[3]) /\ MaskedOffset(chunk.rows[3]) = VOXEL_ROW_SIZE
    /\ Len(chunk.row_data) = 2 * VOXEL_ROW_SIZE

Button(d, n) == [ended_down |-> d, half_transition_count |-> n]

\* Synthetic inputs: the default, one button down, all buttons down with
\* nonzero counts (one of them above a byte).
SampleInputs ==
    {GameInputNew(CONTROLLER_COUNT),
     [controllers |-> <<[ControllerDefault EXCEPT !.move_up = Button(TRUE, 1)]>>],
     [controllers |-> <<[move_up |-> Button(TRUE, 1), move_down |-> Button(TRUE, 3),
                         move_left |-> Button(TRUE, 2), move_right |-> Button(TRUE, 300)]>>]}

\* The slot the frame loop names in begin_recording_input(state, 1) and
\* begin_input_playback(state, 1).
Slots == {RECORDING_SLOT}

ReplayInit ==
    /\ CodecIdle
    /\ state = InitialState
    /\ disk = NoFiles
    /\ new_input = GameInputNew(CONTROLLER_COUNT)
    /\ HarnessIdle
    /\ DriverIdle

\* A panic ends the process.
Alive == call.res # "Panic"

Called(op, res, eof) == [op |-> op, res |-> res, eof |-> eof, before |-> new_input]

RBeginRecording(idx) ==
    /\ Alive
    /\ LET r == begin_recording_input(state, disk, idx)
       IN  /\ state' = r.st
           /\ disk' = r.fs
           /\ call' = Called("begin_recording_input", r.res, FALSE)
           /\ h_phase' = IF r.res = "Ok" THEN "rec" ELSE "free"
           /\ h_take' = <<>>
           /\ h_snap' = IF r.res = "Ok" THEN Some(state.game) ELSE None
    /\ h_reads' = 0
    /\ UNCHANGED <<new_input, codec_vars>>
    /\ UNCHANGED driver_vars

\* The caller records its current Game Input, as main does.
RRecord ==
    /\ Alive
    /\ disk.rec # None => Len(disk.rec[1]) < MaxRecords * BINCODED_GAME_INPUT_SIZE
    /\ LET r == record_input(state, disk, new_input)
           on == r.res = "Ok" /\ h_phase = "rec"
       IN  /\ state' = r.st
           /\ disk' = r.fs
           /\ call' = Called("record_input", r.res, FALSE)
           /\ h_phase' = IF on THEN "rec" ELSE "free"
           /\ h_take' = IF on THEN Append(h_take, new_input) ELSE <<>>
           /\ h_snap' = IF on THEN h_snap ELSE None
    /\ h_reads' = 0
    /\ UNCHANGED <<new_input, codec_vars>>
    /\ UNCHANGED driver_vars

REndRecording ==
    /\ Alive
    /\ state' = end_recording_input(state)
    /\ call' = Called("end_recording_input", "Ok", FALSE)
    /\ h_phase' = IF h_phase = "rec" THEN "ended" ELSE "free"
    /\ h_take' = IF h_phase = "rec" THEN h_take ELSE <<>>
    /\ h_snap' = IF h_phase = "rec" THEN h_snap ELSE None
    /\ h_reads' = 0
    /\ UNCHANGED <<disk, new_input, codec_vars>>
    /\ UNCHANGED driver_vars

RBeginPlayback(idx) ==
    /\ Alive
    /\ LET r == begin_input_playback(state, disk, idx)
       IN  /\ state' = r.st
           /\ disk' = r.fs
           /\ call' = Called("begin_input_playback", r.res, FALSE)
           /\ h_phase' = IF r.res = "Ok" /\ h_phase = "ended" THEN "play" ELSE "free"
           /\ h_take' = IF r.res = "Ok" /\ h_phase = "ended" THEN h_take ELSE <<>>
           /\ h_snap' = IF r.res = "Ok" /\ h_phase = "ended" THEN h_snap ELSE None
    /\ h_reads' = 0
    /\ UNCHANGED <<new_input, codec_vars>>
    /\ UNCHANGED driver_vars

RPlayback ==
    /\ Alive
    /\ h_reads < MaxReads
    /\ LET r == playback_input(state, disk, new_input)
           on == h_phase = "play"
       IN  /\ state' = r.st
           /\ disk' = r.fs
           /\ new_input' = r.input
           /\ call' = Called("playback_input", r.res, r.eof)
           /\ h_phase' = IF on THEN "play" ELSE "free"
           /\ h_take' = IF on THEN h_take ELSE <<>>
           /\ h_snap' = IF on THEN h_snap ELSE None
           /\ h_reads' = IF on THEN h_reads + 1 ELSE 0
    /\ UNCHANGED codec_vars
    /\ UNCHANGED driver_vars

REndPlayback ==
    /\ Alive
    /\ state' = end_input_playback(state)
    /\ call' = Called("end_input_playback", "Ok", FALSE)
    /\ h_phase' = "free"
    /\ h_take' = <<>>
    /\ h_snap' = None
    /\ h_reads' = 0
    /\ UNCHANGED <<disk, new_input, codec_vars>>
    /\ UNCHANGED driver_vars

\* The caller builds the next frame's input.
RSetInput(inp) ==
    /\ Alive
    /\ inp # new_input
    /\ new_input' = inp
    /\ call' = Called("set_input", "Ok", FALSE)
    /\ UNCHANGED <<state, disk, h_phase, h_take, h_reads, h_snap, codec_vars>>
    /\ UNCHANGED driver_vars

\* The caller runs the simulation update on the current input.
RUpdate ==
    /\ Alive
    /\ LET g == update_and_render(state.game, new_input)
       IN  /\ g # state.game
           /\ g.x_offset \in -MaxOffset .. MaxOffset
           /\ g.y_offset \in -MaxOffset .. MaxOffset
           /\ state' = [state EXCEPT !.game = g]
    /\ call' = Called("update_and_render", "Ok", FALSE)
    /\ UNCHANGED <<disk, new_input, h_phase, h_take, h_reads, h_snap, codec_vars>>
    /\ UNCHANGED driver_vars

ReplayNext ==
    \/ \E idx \in Slots : RBeginRecording(idx)
    \/ RRecord
    \/ REndRecording
    \/ \E idx \in Slots : RBeginPlayback(idx)
    \/ RPlayback
    \/ REndPlayback
    \/ \E inp \in SampleInputs : RSetInput(inp)
    \/ RUpdate

SpecReplay == ReplayInit /\ [][ReplayNext]_vars

(***************************************************************************)
(* Claims about the replay operations (SpecReplay).                        *)
(***************************************************************************)
AfterPlayback == call.op = "playback_input"

\* C2: after begin recording, record x N, end recording, begin playback, the
\* k-th playback_input (k <= N) succeeds and leaves in the caller's Game
\* Input the k-th recorded value, field for field.
C2_ReplayDeterminism ==
    (h_phase = "play" /\ AfterPlayback /\ h_reads \in 1 .. Len(h_take)) =>
        /\ call.res = "Ok"
        /\ ~call.eof
        /\ new_input = h_take[h_reads]

\* Two different inputs were recorded and the second one, with a count
\* above one byte, has just been played back.
C2_Witness ==
    /\ h_phase = "play" /\ AfterPlayback
    /\ Len(h_take) = 2 /\ h_reads = 2
    /\ h_take[1] # h_take[2]
    /\ new_input.controllers[1].move_right = Button(TRUE, 300)

\* C3: with N >= 1 records, the (N+1)-th playback_input returns Ok, leaves
\* the session playing the same slot with the stream at its start and the
\* Game State equal to the snapshot taken at recording start; the call after
\* it yields the first recorded input.
C3_LoopOnExhaustion ==
    (h_phase = "play" /\ AfterPlayback /\ Len(h_take) >= 1) =>
        /\ h_reads = Len(h_take) + 1 =>
              /\ call.res = "Ok"
              /\ call.eof
              /\ state.input_playback_index = Some(RECORDING_SLOT)
              /\ state.playback_file = Some(Handle(0))
              /\ state.input_recording_index = None
              /\ state.game = h_snap[1]
        /\ h_reads = Len(h_take) + 2 =>
              /\ call.res = "Ok"
              /\ new_input = h_take[1]

\* The stream of one record was exhausted and restarted, and the call after
\* the restart has returned the record, which is not the default input.
C3_Witness ==
    /\ h_phase = "play" /\ AfterPlayback
    /\ Len(h_take) = 1 /\ h_reads = 3
    /\ new_input = h_take[1]
    /\ new_input # GameInputNew(CONTROLLER_COUNT)
    /\ state.playback_file = Some(Handle(BINCODED_GAME_INPUT_SIZE))
    /\ state.game = h_snap[1]

\* C10: a playback_input that meets the end of the stream returns Ok and
\* leaves the caller's Game Input as it was before the call.
C10_ExhaustionKeepsInput ==
    (AfterPlayback /\ call.eof) =>
        /\ call.res = "Ok"
        /\ new_input = call.before

\* The end of the stream was met with a caller's input that has buttons
\* down and counted transitions.
C10_Witness ==
    /\ AfterPlayback /\ call.eof /\ call.res = "Ok"
    /\ call.before.controllers[1].move_up = Button(TRUE, 1)
    /\ new_input = call.before

\* Game Inputs of one controller: every combination of the four levels with
\* every combination of counts from TransitionCounts.
TransitionCounts == {0, 1, 300, 2147483647}
ControllerShapes ==
    [move_up : BOOLEAN \X TransitionCounts, move_down : BOOLEAN \X TransitionCounts,
     move_left : BOOLEAN \X TransitionCounts, move_right : BOOLEAN \X TransitionCounts]
InputOfShape(c) ==
    [controllers |->
        <<[move_up |-> Button(c.move_up[1], c.move_up[2]),
           move_down |-> Button(c.move_down[1], c.move_down[2]),
           move_left |-> Button(c.move_left[1], c.move_left[2]),
           move_right |-> Button(c.move_right[1], c.move_right[2])]>>]

\* C12: every Game Input of one controller encodes to exactly
\* BINCODED_GAME_INPUT_SIZE = 8 + 4 * (1 + 8) bytes, and after k record_input
\* calls of a take recording.ci holds k * BINCODED_GAME_INPUT_SIZE bytes.
C12_FixedSizeEncoding ==
    /\ BINCODED_GAME_INPUT_SIZE = 8 + 4 * (1 + 8)
    /\ call.op = "none" =>
          \A c \in ControllerShapes :
              Len(serialize_input(InputOfShape(c))) = BINCODED_GAME_INPUT_SIZE
    /\ Len(serialize_input(new_input)) = BINCODED_GAME_INPUT_SIZE
    /\ h_phase \in {"rec", "ended"} =>
          /\ disk.rec # None
          /\ Len(disk.rec[1]) = Len(h_take) * BINCODED_GAME_INPUT_SIZE

\* Two inputs were recorded in one take, the default one and one with all
\* buttons down and nonzero counts, and the file holds 88 bytes.
C12_Witness ==
    /\ h_phase = "rec" /\ call.op = "record_input" /\ call.res = "Ok"
    /\ Len(h_take) = 2
    /\ h_take[1] = GameInputNew(CONTROLLER_COUNT)
    /\ h_take[2].controllers[1].move_right = Button(TRUE, 300)
    /\ \A b \in {"move_up", "move_down", "move_left"} :
          h_take[2].controllers[1][b].ended_down
    /\ Len(disk.rec[1]) = 2 * BINCODED_GAME_INPUT_SIZE

(***************************************************************************)
(* Spec: main.  One frame is LoopTop, the events of poll_iter, PollEnd,    *)
(* DoRecord, DoPlayback, DoUpdate.                                         *)
(***************************************************************************)
MoveKeys == {"W", "S", "A", "D"}

\* process_pending_events maps W, S, A, D to the four buttons.
ButtonOf(k) ==
    CASE k = "W" -> "move_up" [] k = "S" -> "move_down"
      [] k = "A" -> "move_left" [] k = "D" -> "move_right"

Init ==
    /\ CodecIdle
    /\ HarnessIdle
    /\ state = InitialState
    /\ disk = NoFiles
    /\ new_input = GameInputNew(CONTROLLER_COUNT)
    /\ old_input = GameInputNew(CONTROLLER_COUNT)
    /\ running = TRUE
    /\ pc = "start"
    /\ panic = "none"
    /\ phys = {}
    /\ nevents = 0
    /\ g_applied = <<>>
    /\ g_replayed = 0
    /\ g_clean = FALSE
    /\ g_handed = None

Live == panic = "none"

\* A variant of the start in which the loop is entered without the
\* comparison.
Startup_unchecked ==
    /\ Live /\ pc = "start"
    /\ pc' = "top" /\ panic' = panic
    /\ UNCHANGED <<state, disk, new_input, old_input, running, phys, nevents,
                   g_applied, g_replayed, g_clean>>
    /\ UNCHANGED <<codec_vars, harness_vars, g_handed>>

\* assert_eq!(serialize(&new_input).unwrap().len(), BINCODED_GAME_INPUT_SIZE)
\* (main.rs:545).
Startup ==
    /\ Live /\ pc = "start"
    /\ IF Len(serialize_input(new_input)) = BINCODED_GAME_INPUT_SIZE
       THEN pc' = "top" /\ panic' = panic
       ELSE pc' = pc /\ panic' = "size"
    /\ UNCHANGED <<state, disk, new_input, old_input, running, phys, nevents,
                   g_applied, g_replayed, g_clean>>
    /\ UNCHANGED <<codec_vars, harness_vars, g_handed>>

\* A variant of the carry that starts the frame from a default controller
\* and copies nothing.
carry_levels_none(old) == ControllerDefault

\* The carry of main.rs:559-566: a default controller with the levels of
\* old_input.
carry_levels(old) ==
    [move_up |-> Button(old.move_up.ended_down, 0),
     move_down |-> Button(old.move_down.ended_down, 0),
     move_left |-> Button(old.move_left.ended_down, 0),
     move_right |-> Button(old.move_right.ended_down, 0)]

\* The head of the loop (main.rs:550-566): leave when the flag is down,
\* otherwise carry the levels and start polling.
LoopTop ==
    /\ Live /\ pc = "top"
    /\ IF ~running
       THEN pc' = "exited" /\ new_input' = new_input
       ELSE /\ pc' = "events"
            /\ new_input' = [new_input EXCEPT
                                !.controllers[1] = carry_levels(old_input.controllers[1])]
    /\ g_replayed' = 0
    /\ UNCHANGED <<state, disk, old_input, running, panic, phys, nevents,
                   g_applied, g_clean>>
    /\ UNCHANGED <<codec_vars, harness_vars, g_handed>>

\* Event::Quit, or a key-down of Escape or Q (main.rs:635-637).
EvQuit ==
    /\ Live /\ pc = "events" /\ nevents < MaxEvents
    /\ running' = FALSE
    /\ nevents' = nevents + 1
    /\ g_clean' = FALSE
    /\ UNCHANGED <<state, disk, new_input, old_input, pc, panic, phys,
                   g_applied, g_replayed>>
    /\ UNCHANGED <<codec_vars, harness_vars, g_handed>>

\* process_key_press (main.rs:623-627): [ok, b]; ok = FALSE is the failed
\* assertion.
process_key_press(new_state, is_down) ==
    IF new_state.ended_down = is_down THEN [ok |-> FALSE, b |-> new_state]
    ELSE [ok |-> TRUE,
          b |-> [ended_down |-> is_down,
                 half_transition_count |-> new_state.half_transition_count + 1]]

\* A non-repeat key-down or key-up of a movement key.  The device delivers
\* them alternating: down when the key is up, up when it is down.
EvMoveKey(k, is_down) ==
    /\ Live /\ pc = "events" /\ nevents < MaxEvents
    /\ is_down = (k \notin phys)
    /\ phys' = IF is_down THEN phys \cup {k} ELSE phys \ {k}
    /\ LET r == process_key_press(new_input.controllers[1][ButtonOf(k)], is_down)
       IN  IF r.ok
           THEN /\ new_input' = [new_input EXCEPT !.controllers[1][ButtonOf(k)] = r.b]
                /\ panic' = panic
           ELSE /\ new_input' = new_input
                /\ panic' = "assert"
    /\ nevents' = nevents + 1
    /\ g_clean' = FALSE
    /\ UNCHANGED <<state, disk, old_input, running, pc, g_applied, g_replayed>>
    /\ UNCHANGED <<codec_vars, harness_vars, g_handed>>

\* The L branch of process_pending_events for a key-down (main.rs:655-662):
\* [st, fs, res].
toggle_recording(st, fs) ==
    IF st.input_recording_index = None
    THEN begin_recording_input(st, fs, RECORDING_SLOT)
    ELSE begin_input_playback(end_recording_input(st), fs, RECORDING_SLOT)

\* A non-repeat key-down of L.
EvToggle ==
    /\ Live /\ pc = "events" /\ nevents < MaxEvents
    /\ LET r == toggle_recording(state, disk)
       IN  /\ state' = r.st
           /\ disk' = r.fs
           /\ panic' = IF r.res = "Ok" THEN panic ELSE "io"
           /\ g_applied' = IF state.input_recording_index = None THEN <<>> ELSE g_applied
           /\ g_clean' = (state.input_recording_index # None /\ r.res = "Ok")
    /\ nevents' = nevents + 1
    /\ UNCHANGED <<new_input, old_input, running, pc, phys, g_replayed>>
    /\ UNCHANGED <<codec_vars, harness_vars, g_handed>>

\* Every other event: a key-up of L, a repeat, a key the game does not
\* bind, a window event.
EvOther ==
    /\ Live /\ pc = "events"
    /\ UNCHANGED vars

\* poll_iter has no more events.
PollEnd ==
    /\ Live /\ pc = "events"
    /\ pc' = "record"
    /\ UNCHANGED <<state, disk, new_input, old_input, running, panic, phys, nevents,
                   g_applied, g_replayed, g_clean>>
    /\ UNCHANGED <<codec_vars, harness_vars, g_handed>>

Recording == state.input_recording_index # None
Playing == state.input_playback_index # None

\* main.rs:574-577.
DoRecord ==
    /\ Live /\ pc = "record"
    /\ IF Recording
       THEN /\ disk.rec # None => Len(disk.rec[1]) < MaxRecords * BINCODED_GAME_INPUT_SIZE
            /\ LET r == record_input(state, disk, new_input)
               IN  /\ state' = r.st
                   /\ disk' = r.fs
                   /\ panic' = CASE r.res = "Ok" -> panic
                                  [] r.res = "Err" -> "io"
                                  [] r.res = "Panic" -> "record"
                   /\ g_applied' = Append(g_applied, state.game)
       ELSE UNCHANGED <<state, disk, panic, g_applied>>
    /\ pc' = "playback"
    /\ UNCHANGED <<new_input, old_input, running, phys, nevents, g_replayed, g_clean>>
    /\ UNCHANGED <<codec_vars, harness_vars, g_handed>>

\* main.rs:579-582.
DoPlayback ==
    /\ Live /\ pc = "playback"
    /\ IF Playing
       THEN LET r == playback_input(state, disk, new_input)
            IN  /\ state' = r.st
                /\ disk' = r.fs
                /\ new_input' = r.input
                /\ panic' = CASE r.res = "Ok" -> panic
                               [] r.res = "Err" -> "io"
                               [] r.res = "Panic" -> "playback"
                /\ g_replayed' = IF r.res = "Ok" /\ ~r.eof
                                 THEN r.st.playback_file[1].pos \div BINCODED_GAME_INPUT_SIZE
                                 ELSE 0
       ELSE UNCHANGED <<state, disk, new_input, panic, g_replayed>>
    /\ pc' = "update"
    /\ UNCHANGED <<old_input, running, phys, nevents, g_applied, g_clean>>
    /\ UNCHANGED <<codec_vars, harness_vars, g_handed>>

\* main.rs:585-589: update_and_render, then new_input and old_input swap.
DoUpdate ==
    /\ Live /\ pc = "update"
    /\ LET g == update_and_render(state.game, new_input)
       IN  /\ g.x_offset \in -MaxOffset .. MaxOffset
           /\ g.y_offset \in -MaxOffset .. MaxOffset
           /\ state' = [state EXCEPT !.game = g]
    /\ g_handed' = Some(new_input)
    /\ new_input' = old_input
    /\ old_input' = new_input
    /\ pc' = "top"
    /\ UNCHANGED <<disk, running, panic, phys, nevents, g_applied, g_replayed, g_clean>>
    /\ UNCHANGED <<codec_vars, harness_vars>>

Next ==
    \/ Startup
    \/ LoopTop
    \/ EvQuit
    \/ \E k \in MoveKeys, d \in BOOLEAN : EvMoveKey(k, d)
    \/ EvToggle
    \/ EvOther
    \/ PollEnd
    \/ DoRecord
    \/ DoPlayback
    \/ DoUpdate

Spec == Init /\ [][Next]_vars

(***************************************************************************)
(* Claims about the frame loop (Spec).                                     *)
(***************************************************************************)
\* C4: the session is never recording and playing back at the same time.
C4_SessionMutualExclusion ==
    ~((state.input_recording_index # None \/ state.recording_file # None)
        /\ (state.input_playback_index # None \/ state.playback_file # None))

\* C5: during playback with no further device events, the Game State the
\* k-th recorded input is applied to equals the Game State it was applied
\* to while recording, in the first iteration and after every restart.
C5_LosslessLoopedReplay ==
    (pc = "update" /\ Live /\ g_clean /\ g_replayed >= 1) =>
        /\ g_replayed <= Len(g_applied)
        /\ state.game = g_applied[g_replayed]

\* C7: with alternating key-down/key-up events per movement key, the
\* assertion of process_key_press never fails.
C7_KeyTransitionsFlip == panic # "assert"

(***************************************************************************)
(* SpecBuilds: main built with CONTROLLER_COUNT (main.rs:82) set to 1, as  *)
(* in the source, or to a larger number while BINCODED_GAME_INPUT_SIZE is  *)
(* left at 44.  The keyboard stays controller 0.                           *)
(***************************************************************************)
\* main.rs:525-548 with GameInput::new(n).
BuildInit ==
    \E n \in 1 .. MaxControllers :
        /\ CodecIdle
        /\ HarnessIdle
        /\ state = InitialState
        /\ disk = NoFiles
        /\ new_input = GameInputNew(n)
        /\ old_input = GameInputNew(n)
        /\ running = TRUE
        /\ pc = "start"
        /\ panic = "none"
        /\ phys = {}
        /\ nevents = 0
        /\ g_applied = <<>>
        /\ g_replayed = 0
        /\ g_clean = FALSE
        /\ g_handed = None

SpecBuilds == BuildInit /\ [][Next]_vars

\* The encoded length of a fresh default Game Input of this build.
FreshInputSize == Len(serialize_input(GameInputNew(Len(new_input.controllers))))
NothingRan == nevents = 0 /\ disk = NoFiles /\ state = InitialState

\* C13: main compares the encoded length of a fresh default Game Input with
\* BINCODED_GAME_INPUT_SIZE before the first frame; when they differ the
\* process stops there: no event is handled, no record or playback operation
\* runs and neither file is created.
C13_StartupCheckFirst ==
    /\ pc = "start" => NothingRan
    /\ panic = "size" => pc = "start"
    /\ FreshInputSize # BINCODED_GAME_INPUT_SIZE => (pc = "start" /\ NothingRan)

\* A build with two controllers has failed the comparison.
C13_Witness ==
    /\ Len(new_input.controllers) = 2
    /\ FreshInputSize = 8 + 2 * CONTROLLER_BYTES
    /\ panic = "size"
    /\ pc = "start"
    /\ NothingRan

(***************************************************************************)
(* Claims about the frames of main (Spec).                                 *)
(***************************************************************************)
Buttons == {"move_up", "move_down", "move_left", "move_right"}

\* The level of button b the frame starts from: that of the Game Input the
\* previous frame handed to update_and_render, up in the first frame.
CarriedLevel(b) ==
    IF g_handed = None THEN FALSE ELSE g_handed[1].controllers[1][b].ended_down

Odd(n) == n % 2 = 1

\* C15: when a frame starts to handle events, every button has the level it
\* had in the Game Input the previous frame handed to update_and_render (the
\* replayed one after a playback frame) and a count of 0; when it has handled
\* them, every button has the carried level flipped once per counted
\* transition.
C15_CarryLevelResetEdges ==
    [][/\ (pc = "top" /\ pc' = "events") =>
            \A b \in Buttons :
                new_input'.controllers[1][b] = Button(CarriedLevel(b), 0)
       /\ (pc = "events" /\ pc' = "record") =>
            \A b \in Buttons :
                new_input.controllers[1][b].ended_down
                  = (CarriedLevel(b) # Odd(new_input.controllers[1][b].half_transition_count))
      ]_vars

\* A frame after a playback frame handles events: move_up is down as in the
\* replayed input, with no transition counted, while the user does not hold
\* W.
C15_Witness ==
    /\ pc = "events" /\ Live /\ Playing
    /\ g_handed # None
    /\ g_handed[1].controllers[1].move_up = Button(TRUE, 1)
    /\ "W" \notin phys
    /\ new_input.controllers[1].move_up = Button(TRUE, 0)

(***************************************************************************)
(* More claims about the replay operations (SpecReplay).                   *)
(***************************************************************************)
\* The k-th record of recording.ci, decoded.
RecordAt(k) ==
    deserialize_input(Slice(disk.rec[1], (k - 1) * BINCODED_GAME_INPUT_SIZE,
                            BINCODED_GAME_INPUT_SIZE))

\* C16: after a successful begin_recording_input, whatever the files held,
\* recording.ci holds no record and state.sav decodes to the Game State of
\* the moment of the call; it still does after the calls that follow in the
\* take, and after N record_input calls recording.ci holds those N records
\* and nothing of an earlier take.
C16_BeginRecordingResetsTake ==
    /\ (call.op = "begin_recording_input" /\ call.res = "Ok") =>
          /\ disk.rec = Some(<<>>)
          /\ h_snap = Some(state.game)
    /\ h_phase \in {"rec", "ended"} =>
          /\ disk.sav # None
          /\ deserialize_game(disk.sav[1]) = [ok |-> TRUE, v |-> h_snap[1]]
          /\ Len(disk.rec[1]) = Len(h_take) * BINCODED_GAME_INPUT_SIZE
          /\ \A k \in 1 .. Len(h_take) : RecordAt(k) = [ok |-> TRUE, v |-> h_take[k]]

\* A take of one record has ended after an earlier take of two records, of
\* which the playback handle still stands behind the second, and after the
\* camera has moved away from the snapshot.
C16_Witness ==
    /\ h_phase = "ended"
    /\ Len(h_take) = 1
    /\ state.playback_file = Some(Handle(2 * BINCODED_GAME_INPUT_SIZE))
    /\ Len(disk.rec[1]) = BINCODED_GAME_INPUT_SIZE
    /\ state.game # h_snap[1]

(***************************************************************************)
(* SpecIO: main while the file system may refuse to create or open         *)
(* recording.ci and state.sav, at any call that creates or opens them.     *)
(***************************************************************************)
FileNames == {"rec", "sav"}

\* A non-repeat key-down of L during which File::create or File::open fails
\* on the files of d; main unwraps the IoError into a panic.
EvToggleDenied(d) ==
    /\ Live /\ pc = "events" /\ nevents < MaxEvents
    /\ LET r == toggle_recording(state, [disk EXCEPT !.deny = d])
       IN  /\ r.res = "Err"
           /\ state' = r.st
           /\ disk' = r.fs
           /\ panic' = "io"
    /\ nevents' = nevents + 1
    /\ g_clean' = FALSE
    /\ UNCHANGED <<new_input, old_input, running, pc, phys, g_applied, g_replayed>>
    /\ UNCHANGED <<codec_vars, harness_vars, g_handed>>

\* main.rs:579-582 when File::open fails on the files of d in the restart
\* inside playback_input.
DoPlaybackDenied(d) ==
    /\ Live /\ pc = "playback"
    /\ Playing
    /\ LET r == playback_input(state, [disk EXCEPT !.deny = d], new_input)
       IN  /\ r.res = "Err"
           /\ state' = r.st
           /\ disk' = r.fs
           /\ new_input' = r.input
           /\ panic' = "io"
    /\ g_replayed' = 0
    /\ pc' = "update"
    /\ UNCHANGED <<old_input, running, phys, nevents, g_applied, g_clean>>
    /\ UNCHANGED <<codec_vars, harness_vars, g_handed>>

IONext ==
    \/ Startup
    \/ LoopTop
    \/ EvQuit
    \/ \E k \in MoveKeys, d \in BOOLEAN : EvMoveKey(k, d)
    \/ EvToggle
    \/ EvOther
    \/ PollEnd
    \/ DoRecord
    \/ DoPlayback
    \/ DoUpdate
    \/ \E d \in (SUBSET FileNames) \ {{}} : EvToggleDenied(d)
    \/ \E d \in (SUBSET FileNames) \ {{}} : DoPlaybackDenied(d)

SpecIO == Init /\ [][IONext]_vars

\* C17: main calls record_input only with recording_file set and
\* playback_input only with playback_file and input_playback_index set, so
\* neither panics for a missing handle or index, whatever keys are pressed;
\* a failed File::create or File::open ends the process before the next call.
C17_OperationPreconditions ==
    /\ panic \notin {"record", "playback"}
    /\ (Live /\ pc = "record" /\ Recording) => state.recording_file # None
    /\ (Live /\ pc = "playback" /\ Playing) =>
          /\ state.playback_file # None
          /\ state.input_playback_index # None

\* After a third key-down of L the frame has called both record_input and
\* playback_input, each with its handle set.
C17_Witness ==
    /\ Live /\ pc = "update"
    /\ Recording /\ state.recording_file = Some(Handle(BINCODED_GAME_INPUT_SIZE))
    /\ Playing /\ state.playback_file # None

(***************************************************************************)
(* Claims about the session fields (SpecReplay).                           *)
(***************************************************************************)
\* C18: after every operation, also a begin_recording_input or
\* begin_input_playback that returned an I/O error, recording_file is set
\* exactly when input_recording_index is, and playback_file exactly when
\* input_playback_index is.
C18_SessionFieldsPaired ==
    /\ (state.recording_file # None) <=> (state.input_recording_index # None)
    /\ (state.playback_file # None) <=> (state.input_playback_index # None)

\* C19: end_recording_input clears recording_file and
\* input_recording_index and changes nothing else: not the files, not the
\* Game State, not the playback fields.  A record_input that succeeds
\* appends one record, the caller's Game Input, to recording.ci and leaves
\* state.sav and the Game State as they were.  state.sav changes only in
\* begin_recording_input.
C19_SnapshotLeftAlone ==
    [][/\ call'.op = "end_recording_input" =>
            /\ state'.recording_file = None
            /\ state'.input_recording_index = None
            /\ state'.game = state.game
            /\ state'.playback_file = state.playback_file
            /\ state'.input_playback_index = state.input_playback_index
            /\ disk' = disk
            /\ new_input' = new_input
       /\ (call'.op = "record_input" /\ call'.res = "Ok") =>
            /\ disk'.sav = disk.sav
            /\ state'.game = state.game
            /\ disk'.rec # None
            /\ disk'.rec[1] = disk.rec[1] \o serialize_input(new_input)
       /\ disk'.sav # disk.sav => call'.op = "begin_recording_input"
      ]_vars

\* A take of at least one record has just been ended while a playback
\* handle is open and the camera has moved away from the snapshot, which
\* state.sav still holds.
C19_Witness ==
    /\ call.op = "end_recording_input"
    /\ h_phase = "ended" /\ Len(h_take) >= 1
    /\ state.recording_file = None
    /\ state.playback_file # None
    /\ state.game # h_snap[1]
    /\ disk.sav = Some(serialize_game(h_snap[1]))

(***************************************************************************)
(* Claims about the stop flag (Spec).                                      *)
(***************************************************************************)
\* C20: once a quit event is handled GLOBAL_RUNNING is false and stays
\* false; the event does not cut its frame short: the frame goes on through
\* the remaining events, record/playback and update, nothing stops the
\* process before the head of the loop, and there the loop exits without
\* another frame.
C20_StopFlagPerFrame ==
    [][/\ ~running => ~running'
       /\ (running /\ ~running') => (pc = "events" /\ pc' = "events")
       /\ (pc' = "exited" /\ pc # "exited") => (pc = "top" /\ ~running)
       /\ (pc = "top" /\ ~running) => pc' = "exited"
       /\ ~running' => panic' = "none"
      ]_vars

(***************************************************************************)
(* Claims about playback in the frames of main (Spec).                     *)
(***************************************************************************)
\* The step of a frame that calls playback_input.
PlaybackStep == Live /\ pc = "playback" /\ Playing /\ pc' = "update"

\* read_exact finds a whole record at the offset of the playback handle.
RecordAhead ==
    state.playback_file[1].pos + BINCODED_GAME_INPUT_SIZE <= Len(disk.rec[1])

\* C21: a playback_input call reads once.  When a record is ahead it hands
\* that record back and moves the handle behind it; at the end of the stream
\* it closes, reopens and reloads the snapshot once and returns Ok with the
\* handle at the start of the stream and the caller's input untouched, with
\* no second read.  With an empty recording every frame takes that second
\* path: the frame goes on to update and no frame gets replayed input.
C21_OneReadOneRestart ==
    [][PlaybackStep =>
          /\ panic' = "none"
          /\ disk' = disk
          /\ state'.input_playback_index = state.input_playback_index
          /\ RecordAhead =>
                /\ state'.playback_file =
                      Some(Handle(state.playback_file[1].pos + BINCODED_GAME_INPUT_SIZE))
                /\ new_input' = deserialize_input(
                                    Slice(disk.rec[1], state.playback_file[1].pos,
                                          BINCODED_GAME_INPUT_SIZE)).v
                /\ state'.game = state.game
                /\ g_replayed' >= 1
          /\ ~RecordAhead =>
                /\ state'.playback_file = Some(Handle(0))
                /\ new_input' = new_input
                /\ state'.game = deserialize_game(disk.sav[1]).v
                /\ g_replayed' = 0
          /\ disk.rec = Some(<<>>) => ~RecordAhead
      ]_vars

\* Playback of a recording of one record has met the end of the stream: the
\* handle is back at the start and the record was not read again.
C21_Witness ==
    /\ Live /\ pc = "update" /\ Playing /\ ~Recording
    /\ Len(disk.rec[1]) = BINCODED_GAME_INPUT_SIZE
    /\ state.playback_file = Some(Handle(0))
    /\ g_replayed = 0
    /\ g_handed # None

(***************************************************************************)
(* Claims about leaving playback (Spec).                                   *)
(***************************************************************************)
SessionIdle(st) ==
    /\ st.input_recording_index = None /\ st.recording_file = None
    /\ st.input_playback_index = None /\ st.playback_file = None

\* n key-downs of L in one poll (main.rs:655-662): [st, fs, res], res being
\* that of the first call that fails.
RECURSIVE toggles(_, _, _)
toggles(st, fs, n) ==
    IF n = 0 THEN [st |-> st, fs |-> fs, res |-> "Ok"]
    ELSE LET r == toggle_recording(st, fs)
         IN  IF r.res # "Ok" THEN r ELSE toggles(r.st, r.fs, n - 1)

\* What one frame of main does to the session and the files when its poll
\* holds n key-downs of L: the L branches, then record_input when recording
\* (main.rs:574-577), then playback_input when playing back
\* (main.rs:579-582).  Movement and quit events touch neither.
frame_session(st, fs, n, input) ==
    LET t == toggles(st, fs, n)
    IN  IF t.res # "Ok" THEN [st |-> t.st, fs |-> t.fs, ok |-> FALSE]
        ELSE LET r == IF t.st.input_recording_index # None
                      THEN record_input(t.st, t.fs, input)
                      ELSE [st |-> t.st, fs |-> t.fs, res |-> "Ok"]
             IN  IF r.res # "Ok" THEN [st |-> r.st, fs |-> r.fs, ok |-> FALSE]
                 ELSE IF r.st.input_playback_index # None
                      THEN LET q == playback_input(r.st, r.fs, input)
                           IN  [st |-> q.st, fs |-> q.fs, ok |-> q.res = "Ok"]
                      ELSE [st |-> r.st, fs |-> r.fs, ok |-> TRUE]

\* Some sequence of at most k frames, each with up to MaxTogglesPerFrame
\* key-downs of L, ends with the session idle at the frame boundary.
RECURSIVE CanReachIdle(_, _, _)
CanReachIdle(st, fs, k) ==
    \/ SessionIdle(st)
    \/ /\ k > 0
       /\ \E n \in 0 .. MaxTogglesPerFrame :
             LET r == frame_session(st, fs, n, GameInputNew(CONTROLLER_COUNT))
             IN  r.ok /\ CanReachIdle(r.st, r.fs, k - 1)

\* C22: from a playing session there is a sequence of device events after
\* which, at a frame boundary, the session is idle again: playback_file and
\* input_playback_index cleared and no recording active.
C22_PlayingCanReturnToIdle ==
    (Live /\ pc = "top" /\ Playing) => CanReachIdle(state, disk, MaxFramesAhead)

\* Once main has begun a playback, input_playback_index stays set in every
\* later state.
C22_PlayingStays == [][Playing => Playing']_vars
====
